---- MODULE Spec2Model ----
(***************************************************************************)
(* State-machine model of DynamixelHardware                                *)
(* (dynamixel_hardware_interface.cpp): the control cycle (read / write),   *)
(* the fault monitor (CheckError, CommReset) and the torque coordinator    *)
(* (ChangeDxlTorqueState, set_dxl_torque_srv_callback), with the service   *)
(* thread interleaved with the control cycle.                              *)
(***************************************************************************)
EXTENDS Integers, Sequences, FiniteSets, TLC

\* ------------------------------------------------------------------ bounds
\* Matrix entries of the configurations tried range over -MaxCoef..MaxCoef.
MaxCoef == 1
\* Configured counts and group counts range over 1..MaxGroups.
MaxGroups == 3
\* Register and command values range over 0..MaxVal.
MaxVal == 1
\* SetItem calls accepted for one (id, name) between two drains of the writes.
MaxSetCalls == 2

\* ----------------------------------------------------------- configuration
num_of_joints_ == 2
num_of_transmissions_ == 2
dxl_id_ == <<5, 6>>

transmission_to_joint_matrix_ == <<<<1, 0>>, <<1, 1>>>>
joint_to_transmission_matrix_ == <<<<1, 0>>, <<-1, 1>>>>

PRESENT_POSITION_INDEX == 0
PRESENT_VELOCITY_INDEX == 1
PRESENT_ERROT_INDEX == 2

HW_IF_HARDWARE_STATE == "hardware_state"

\* interface_name_vec of every hdl_trans_states_ entry
TransStateInterfaces ==
  <<"Present Position", "Present Velocity", "Present Current", "Hardware Error Status">>
\* interface_name_vec of every hdl_joint_states_ entry
JointStateInterfaces == <<"position", "velocity", "effort", HW_IF_HARDWARE_STATE>>
\* interface_name_vec of each hdl_joint_commands_ entry (info_.joints command_interfaces)
JointCommandInterfaces == <<<<"position", "velocity">>, <<"position">>>>

Joints == 1..num_of_joints_
Transmissions == 1..num_of_transmissions_
IdSet == {dxl_id_[i] : i \in 1..Len(dxl_id_)}
\* hdl_trans_states_.at(i).id
TransId(i) == dxl_id_[i]

\* ------------------------------------------------------------ enumerations
DXL_OK == "DXL_OK"
HW_ERROR == "HW_ERROR"
COMM_ERROR == "COMM_ERROR"
REBOOTING == "REBOOTING"
DxlStatus == {DXL_OK, HW_ERROR, COMM_ERROR, REBOOTING}

TORQUE_ENABLED == "TORQUE_ENABLED"
TORQUE_DISABLED == "TORQUE_DISABLED"
REQUESTED_TO_ENABLE == "REQUESTED_TO_ENABLE"
REQUESTED_TO_DISABLE == "REQUESTED_TO_DISABLE"
DxlTorqueStatus ==
  {TORQUE_ENABLED, TORQUE_DISABLED, REQUESTED_TO_ENABLE, REQUESTED_TO_DISABLE}

\* DxlError: OK, a transport-level failure, and the hardware-error code
DxlError_OK == "OK"
DxlError_COMM == "COMM_FAIL"
DLX_HARDWARE_ERROR == "DLX_HARDWARE_ERROR"
\* static_cast of a DxlError to the double stored in a joint slot
DxlErrorValue(e) == IF e = DxlError_OK THEN 0 ELSE IF e = DxlError_COMM THEN 1 ELSE 2

\* ------------------------------------------------------------ pure helpers
RECURSIVE BitAnd(_, _)
\* the C++ operator & on non-negative integers
BitAnd(a, b) ==
  IF a = 0 \/ b = 0 THEN 0
  ELSE (IF a % 2 = 1 /\ b % 2 = 1 THEN 1 ELSE 0) + 2 * BitAnd(a \div 2, b \div 2)

\* error_string of CheckError for one Hardware Error Status value
HwErrorString(hw) ==
  (IF BitAnd(hw, 1) # 0 THEN <<"input voltage error">> ELSE <<>>) \o
  (IF BitAnd(hw, 4) # 0 THEN <<"overheating">> ELSE <<>>) \o
  (IF BitAnd(hw, 8) # 0 THEN <<"motor encoder">> ELSE <<>>) \o
  (IF BitAnd(hw, 22) # 0 THEN <<"electrical shork">> ELSE <<>>) \o
  (IF BitAnd(hw, 50) # 0 THEN <<"Overload">> ELSE <<>>)

\* position of an interface name in an interface_name_vec (0 when absent)
IndexOf(names, n) ==
  IF \E k \in 1..Len(names) : names[k] = n
  THEN CHOOSE k \in 1..Len(names) : names[k] = n
  ELSE 0

\* an inner loop that stops after the first column
RowTimesFirstColumn(row, vec, idx, n) ==
  IF n = 0 THEN 0 ELSE row[1] * vec[1][idx + 1]

RECURSIVE RowTimes(_, _, _, _)
\* value += row[j] * (*vec.at(j).value_ptr_vec.at(idx)), j = 1..n
RowTimes(row, vec, idx, n) ==
  IF n = 0 THEN 0 ELSE RowTimes(row, vec, idx, n - 1) + row[n] * vec[n][idx + 1]

\* a mapping that computes the position loop only
TransmissionToJointPositionOnly(matrix, jstates, tstates) ==
  [i \in Joints |->
    [k \in 1..Len(jstates[i]) |->
      IF k - 1 = PRESENT_POSITION_INDEX
      THEN RowTimes(matrix[i], tstates, k - 1, num_of_transmissions_)
      ELSE jstates[i][k]]]

\* the three channel loops of CalcTransmissionToJoint for a matrix set by SetMatrix
TransmissionToJoint(matrix, jstates, tstates) ==
  [i \in Joints |->
    [k \in 1..Len(jstates[i]) |->
      IF k - 1 \in {PRESENT_POSITION_INDEX, PRESENT_VELOCITY_INDEX, PRESENT_ERROT_INDEX}
      THEN RowTimes(matrix[i], tstates, k - 1, num_of_transmissions_)
      ELSE jstates[i][k]]]

\* CalcTransmissionToJoint: the three channel loops
CalcTransmissionToJoint(jstates, tstates) ==
  TransmissionToJoint(transmission_to_joint_matrix_, jstates, tstates)

\* the loop of CalcJointToTransmission for a matrix set by SetMatrix: value_ptr_vec.at(0)
\* of the first num_of_transmissions_ command groups, from value_ptr_vec.at(0) of
\* every joint command group
JointToTransmission(matrix, tcmds, jcmds) ==
  [i \in 1..Len(tcmds) |->
    [k \in 1..Len(tcmds[i]) |->
      IF i <= num_of_transmissions_ /\ k = 1
      THEN RowTimes(matrix[i], jcmds, 0, num_of_joints_)
      ELSE tcmds[i][k]]]

\* CalcJointToTransmission: only value_ptr_vec.at(0) of each command group
CalcJointToTransmission(tcmds, jcmds) ==
  JointToTransmission(joint_to_transmission_matrix_, tcmds, jcmds)

\* the joint state value the sync loop copies into command slot 0 of joint j
\* (the last state interface whose name equals the first command interface)
SyncedCommand(j, jstates, jcmds) ==
  LET n == JointCommandInterfaces[j][1]
      k == IndexOf(JointStateInterfaces, n)
  IN  IF k = 0 THEN jcmds[j][1] ELSE jstates[j][k]

\* a torque step without the resynchronization
SyncSkipped(jstates, jcmds) == jcmds

\* SyncJointCommandWithStates (and the same loop inside start())
SyncJointCommandWithStates(jstates, jcmds) ==
  [j \in Joints |->
    [k \in 1..Len(jcmds[j]) |->
      IF k = 1 THEN SyncedCommand(j, jstates, jcmds) ELSE jcmds[j][k]]]

\* ------------------------------------------------------------------- state
VARIABLES
  dxl_status_,          \* CommStatus
  dxl_torque_status_,   \* TorqueStatus
  dxl_comm_err_,        \* result of the last classified bulk read
  dxl_hw_err_,          \* HardwareErrorBits: id -> register value
  dxl_torque_state_,    \* per-ID torque map copied from the link by the torque step
  hdl_trans_states_,    \* value slots of the transmission state groups
  hdl_joint_states_,    \* value slots of the joint state groups
  hdl_joint_commands_,  \* value slots of the joint command groups
  hdl_trans_commands_,  \* value slots of the transmission command groups
  link_torque,          \* ActuatorLink: torque state per ID
  pc,                   \* position of the control-cycle thread
  entry_status,         \* dxl_status_ as loaded by the entry check of read()/write()
  tick_log,             \* operations issued by the current read()/write() call
  ret,                  \* return value of the read()/write() call that just returned
  cmd_before_sync,      \* joint commands held when the torque step resynchronized
  srv_pc,               \* position of the service thread (one callback at a time)
  srv_data,             \* request->data of the SetTorque call in progress
  srv_response,         \* response of the callback that just returned
  srv_item,             \* request of the GetItem / SetItem call in progress
  read_item_buf_,       \* Item Buffer: pending ad hoc reads, (id, name) -> slot
  write_item_buf_,      \* Item Buffer: pending ad hoc writes, (id, name) -> value
  link_items,           \* ActuatorLink: register contents, (id, name) -> value
  link_writes,          \* ActuatorLink: register writes sent by the last drain
  set_log,              \* values of the SetItem calls accepted since the last drain
  reboot_log,           \* calls issued by the attempt in progress of CommReset's loop
  call_args,            \* arguments of the function applied on its own
  call_ret              \* what that function returned

callvars == <<call_args, call_ret>>

vars ==
  <<dxl_status_, dxl_torque_status_, dxl_comm_err_, dxl_hw_err_, dxl_torque_state_,
    hdl_trans_states_, hdl_joint_states_, hdl_joint_commands_, hdl_trans_commands_,
    link_torque, pc, entry_status, tick_log, ret, cmd_before_sync,
    srv_pc, srv_data, srv_response, srv_item, read_item_buf_, write_item_buf_,
    link_items, link_writes, set_log, reboot_log, callvars>>

handlers ==
  <<hdl_trans_states_, hdl_joint_states_, hdl_joint_commands_, hdl_trans_commands_>>
ctlvars == <<pc, entry_status, tick_log, ret, cmd_before_sync>>
srvvars == <<srv_pc, srv_data, srv_response>>
itemvars ==
  <<srv_item, read_item_buf_, write_item_buf_, link_items, link_writes, set_log>>

\* ------------------------------------------------------------------ inputs
ZeroReading == [t \in Transmissions |-> <<0, 0, 0, 0>>]
\* a bulk read that finds transmission k at position p, velocity MaxVal - p, current p
MovedReading(k, p) ==
  [t \in Transmissions |-> IF t = k THEN <<p, MaxVal - p, p, 0>> ELSE <<0, 0, 0, 0>>]
\* a bulk read that finds Hardware Error Status hw on transmission k
FaultReading(k, hw) ==
  [t \in Transmissions |-> IF t = k THEN <<0, 0, 0, hw>> ELSE <<0, 0, 0, 0>>]

\* outcomes of ReadMultiDxlData: the result code and, on OK, the values read
ReadFailed == [res |-> DxlError_COMM, reading |-> ZeroReading]
ReadOk(readings) == {[res |-> DxlError_OK, reading |-> r] : r \in readings}

\* outcomes with transport failures and hardware faults, values at rest
FaultOutcomes ==
  {ReadFailed} \cup ReadOk({ZeroReading} \cup {FaultReading(k, 1) : k \in Transmissions})
\* outcomes with moving values and no fault
ValueOutcomes ==
  ReadOk({MovedReading(k, p) : k \in Transmissions, p \in 0..MaxVal})

\* Hardware Error Status values: clear, and one value per documented error bit
HwRegisterValues == {0, 1, 4, 8, 16, 32}
\* outcomes with a transport failure and every register value on every transmission
HwOutcomes ==
  {ReadFailed} \cup ReadOk({FaultReading(k, hw) : k \in Transmissions, hw \in HwRegisterValues})

\* outcomes around a reboot: a transport failure, a hardware fault, a moved position
RebootOutcomes ==
  {ReadFailed} \cup ReadOk({ZeroReading, FaultReading(1, 1), MovedReading(1, MaxVal)})

\* what the host's control law can write into the joint command slots
HostCommands ==
  {[j \in Joints |-> [k \in 1..Len(JointCommandInterfaces[j]) |-> c]] : c \in 0..MaxVal}
\* a host whose controllers leave the commands alone
HostIdle == {}

NoResponse == [success |-> FALSE, message |-> "none"]

\* control items of the model file, per ID
ItemNames == {"LED", "Shutdown"}
KnownItems == {<<dxl_id_[1], "LED">>}
\* the (id, item_name) of a request
Items == IdSet \X ItemNames
NoItem == <<0, "">>

\* ------------------------------------------------------------ ActuatorLink
\* ReadMultiDxlData: on success the registered read slots receive the reading
ReadMultiDxlData(o) ==
  IF o.res = DxlError_OK THEN o.reading ELSE hdl_trans_states_

\* DynamixelEnable(dxl_id_)
DynamixelEnable ==
  [id \in IdSet |-> IF \E i \in 1..Len(dxl_id_) : dxl_id_[i] = id THEN TRUE ELSE link_torque[id]]

\* DynamixelDisable(dxl_id_)
DynamixelDisable ==
  [id \in IdSet |-> IF \E i \in 1..Len(dxl_id_) : dxl_id_[i] = id THEN FALSE ELSE link_torque[id]]

\* ------------------------------------------------------------- Item Buffer
DxlError_ITEM == "CANNOT_FIND_CONTROL_ITEM"
\* the value a slot holds when its read failed on the link
ItemReadFailed == -1

\* buf with the slot of pair it set to v
WithSlot(buf, it, v) ==
  [p \in DOMAIN buf \cup {it} |-> IF p = it THEN v ELSE buf[p]]
\* buf without the slot of pair it
WithoutSlot(buf, it) == [p \in DOMAIN buf \ {it} |-> buf[p]]

\* InsertReadItemBuf: an unknown item is refused; one pending slot per pair
InsertReadItemBuf(buf, it) ==
  IF it \notin KnownItems
  THEN [res |-> DxlError_ITEM, buf |-> buf]
  ELSE [res |-> DxlError_OK, buf |-> WithSlot(buf, it, [ready |-> FALSE, data |-> 0])]

\* InsertWriteItemBuf: an unknown item is refused; a queued write of the same pair
\* is replaced by the new value
InsertWriteItemBuf(buf, it, data) ==
  IF it \notin KnownItems
  THEN [res |-> DxlError_ITEM, buf |-> buf]
  ELSE [res |-> DxlError_OK, buf |-> WithSlot(buf, it, data)]

\* CheckReadItemBuf
CheckReadItemBuf(buf, it) == it \in DOMAIN buf /\ buf[it].ready

\* GetReadItemDataBuf
GetReadItemDataBuf(buf, it) == buf[it].data

\* whether a drain of reads has something to ask the link, and what the link can answer
DrainOutcomes(buf) ==
  IF \E p \in DOMAIN buf : ~buf[p].ready THEN BOOLEAN ELSE {TRUE}

\* ReadItemBuf: every pending slot becomes ready, with the register value or, on a
\* transport failure, with the failure value
ReadItemBuf(buf, items, ok) ==
  [p \in DOMAIN buf |->
     IF buf[p].ready THEN buf[p]
     ELSE [ready |-> TRUE, data |-> IF ok THEN items[p] ELSE ItemReadFailed]]

RECURSIVE WritesOf(_, _)
\* the register writes a drain sends for the pairs ps of buf, one per pair
WritesOf(buf, ps) ==
  IF ps = {} THEN <<>>
  ELSE LET p == CHOOSE q \in ps : TRUE
       IN  <<[item |-> p, data |-> buf[p]]>> \o WritesOf(buf, ps \ {p})

\* WriteItemBuf: the queued writes go to the link and the queue is emptied
WriteItemBuf(buf, items) ==
  [sent |-> WritesOf(buf, DOMAIN buf),
   items |-> [p \in DOMAIN items |-> IF p \in DOMAIN buf THEN buf[p] ELSE items[p]],
   buf |-> <<>>]

\* --------------------------------------------------------------- CheckError
HwIndex(i) == IndexOf(TransStateInterfaces, "Hardware Error Status")

\* a CheckError loop that never finds a cause
NoErrorString(tstates, i) == <<>>

\* the causes CheckError reports for transmission i
TransErrorString(tstates, i) ==
  IF HwIndex(i) = 0 THEN <<>> ELSE HwErrorString(tstates[i][HwIndex(i)])

\* the hardware-error registers found in tstates, per ID
HwRegisters(tstates) ==
  [id \in DOMAIN dxl_hw_err_ |->
     IF \E i \in Transmissions : TransId(i) = id /\ HwIndex(i) # 0
     THEN LET i == CHOOSE i \in Transmissions : TransId(i) = id
          IN  tstates[i][HwIndex(i)]
     ELSE dxl_hw_err_[id]]

\* the hardware_state joint slots set to error_state
JointsWithHwState(error_state) ==
  [j \in Joints |->
     [k \in 1..Len(hdl_joint_states_[j]) |->
        IF JointStateInterfaces[k] = HW_IF_HARDWARE_STATE
        THEN DxlErrorValue(error_state)
        ELSE hdl_joint_states_[j][k]]]

\* a CheckError that inspects nothing on a transport failure but clears the bits
CheckErrorClearingBits(dxl_comm_err, tstates) ==
  IF dxl_comm_err # DxlError_OK
  THEN [ret |-> dxl_comm_err, status |-> COMM_ERROR,
        hw |-> [id \in DOMAIN dxl_hw_err_ |-> 0], joints |-> hdl_joint_states_]
  ELSE
    LET faulty == \E i \in Transmissions : TransErrorString(tstates, i) # <<>>
        error_state == IF faulty THEN DLX_HARDWARE_ERROR ELSE DxlError_OK
    IN  [ret |-> error_state,
         status |-> IF faulty THEN HW_ERROR ELSE dxl_status_,
         hw |-> HwRegisters(tstates),
         joints |-> JointsWithHwState(error_state)]

\* a CheckError that starts the recovery by itself on a transport failure
CheckErrorAutoReboot(dxl_comm_err, tstates) ==
  IF dxl_comm_err # DxlError_OK
  THEN [ret |-> dxl_comm_err, status |-> REBOOTING,
        hw |-> dxl_hw_err_, joints |-> hdl_joint_states_]
  ELSE
    LET faulty == \E i \in Transmissions : TransErrorString(tstates, i) # <<>>
        error_state == IF faulty THEN DLX_HARDWARE_ERROR ELSE DxlError_OK
    IN  [ret |-> error_state,
         status |-> IF faulty THEN HW_ERROR ELSE dxl_status_,
         hw |-> HwRegisters(tstates),
         joints |-> JointsWithHwState(error_state)]

\* a CheckError that goes back to DXL_OK on a clean bulk read
CheckErrorRestoring(dxl_comm_err, tstates) ==
  IF dxl_comm_err # DxlError_OK
  THEN [ret |-> dxl_comm_err, status |-> COMM_ERROR,
        hw |-> dxl_hw_err_, joints |-> hdl_joint_states_]
  ELSE
    LET faulty == \E i \in Transmissions : TransErrorString(tstates, i) # <<>>
        error_state == IF faulty THEN DLX_HARDWARE_ERROR ELSE DxlError_OK
    IN  [ret |-> error_state,
         status |-> IF faulty THEN HW_ERROR
                    ELSE IF dxl_status_ = REBOOTING THEN REBOOTING ELSE DXL_OK,
         hw |-> HwRegisters(tstates),
         joints |-> JointsWithHwState(error_state)]

CheckError(dxl_comm_err, tstates) ==
  IF dxl_comm_err # DxlError_OK
  THEN [ret |-> dxl_comm_err, status |-> COMM_ERROR,
        hw |-> dxl_hw_err_, joints |-> hdl_joint_states_]
  ELSE
    LET faulty == \E i \in Transmissions : TransErrorString(tstates, i) # <<>>
        error_state == IF faulty THEN DLX_HARDWARE_ERROR ELSE DxlError_OK
    IN  [ret |-> error_state,
         status |-> IF faulty THEN HW_ERROR ELSE dxl_status_,
         hw |-> HwRegisters(tstates),
         joints |-> JointsWithHwState(error_state)]

\* ------------------------------------------------------------ start / stop
\* whether start() goes on after its classified bulk read
StartProceeds(err) == err = DxlError_OK

\* start(): classified bulk read; on OK map, sync commands with states, torque on
start(o) ==
  LET ts == ReadMultiDxlData(o)
      ce == CheckError(o.res, ts)
  IN  /\ hdl_trans_states_' = ts
      /\ dxl_comm_err_' = ce.ret
      /\ dxl_status_' = ce.status
      /\ dxl_hw_err_' = ce.hw
      /\ IF StartProceeds(ce.ret)
         THEN /\ hdl_joint_states_' = CalcTransmissionToJoint(ce.joints, ts)
              /\ hdl_joint_commands_' =
                   SyncJointCommandWithStates(hdl_joint_states_', hdl_joint_commands_)
              /\ link_torque' = DynamixelEnable
         ELSE /\ hdl_joint_states_' = ce.joints
              /\ UNCHANGED <<hdl_joint_commands_, link_torque>>

\* stop(): torque off
stop == link_torque' = DynamixelDisable

\* -------------------------------------------------------------------- Init
\* the members after the constructor and on_init()
InitMembers ==
  /\ dxl_status_ = DXL_OK
  /\ dxl_torque_status_ = TORQUE_ENABLED
  /\ dxl_comm_err_ \in {DxlError_OK, DxlError_COMM, DLX_HARDWARE_ERROR}
  /\ dxl_hw_err_ = [id \in IdSet |-> 0]
  /\ dxl_torque_state_ = [id \in {} |-> FALSE]
  /\ hdl_trans_states_ = [t \in Transmissions |-> <<0, 0, 0, 0>>]
  /\ hdl_joint_states_ = [j \in Joints |-> <<0, 0, 0, 0>>]
  /\ hdl_joint_commands_ = [j \in Joints |-> [k \in 1..Len(JointCommandInterfaces[j]) |-> 0]]
  /\ hdl_trans_commands_ = [t \in Transmissions |-> <<0>>]
  /\ link_torque \in [IdSet -> BOOLEAN]
  /\ pc = "read"
  /\ entry_status = "none"
  /\ tick_log = <<>>
  /\ ret = "none"
  /\ cmd_before_sync = <<>>
  /\ srv_pc = "idle"
  /\ srv_data = FALSE
  /\ srv_response = NoResponse
  /\ srv_item = NoItem
  /\ read_item_buf_ = <<>>
  /\ write_item_buf_ = <<>>
  /\ link_items = [p \in KnownItems |-> 0]
  /\ link_writes = <<>>
  /\ set_log = [p \in KnownItems |-> <<>>]
  /\ reboot_log = <<>>

\* no call made, and the value a call returned
NoCall == [op |-> "none"]
Returned(value) == [op |-> "return", value |-> value]

\* the state after the constructor and on_init()
Init ==
  /\ InitMembers
  /\ call_args = NoCall
  /\ call_ret = NoCall

\* ------------------------------------------------------- on_init: the sizes
\* what on_init() takes from info_: the two configured counts, the joints, the dxl
\* gpios with state interfaces and the command interfaces of the gpios
Configs ==
  [op : {"on_init"}, number_of_joints : 1..MaxGroups, number_of_transmissions : 1..MaxGroups,
   joints : 1..MaxGroups, gpio_states : 1..MaxGroups, gpio_commands : 1..MaxGroups]

\* hdl_trans_states_.size() after InitDxlReadItems: one group per dxl gpio
TransStateGroups(info) == info.gpio_states
\* hdl_trans_commands_.size() after InitDxlWriteItems: one group per command interface
TransCommandGroups(info) == info.gpio_commands
\* hdl_joint_states_.size() and hdl_joint_commands_.size(): one group per joint
JointStateGroups(info) == info.joints
JointCommandGroups(info) == info.joints

\* the condition of the size checks of on_init()
SizeMismatch(n, commands, states) == n # commands /\ n # states

\* the return value of on_init() as far as the size checks decide it
on_init_return(info) ==
  IF SizeMismatch(info.number_of_transmissions, TransCommandGroups(info),
                  TransStateGroups(info))
  THEN "ERROR"
  ELSE IF SizeMismatch(info.number_of_joints, JointCommandGroups(info),
                       JointStateGroups(info))
  THEN "ERROR"
  ELSE "SUCCESS"

\* on_init() with the configuration call_args
on_init ==
  /\ call_args.op = "on_init"
  /\ call_ret = NoCall
  /\ call_ret' = Returned(on_init_return(call_args))
  /\ UNCHANGED <<dxl_status_, dxl_torque_status_, dxl_comm_err_, dxl_hw_err_,
                 dxl_torque_state_, handlers, link_torque, ctlvars, srvvars, itemvars,
                 reboot_log, call_args>>

\* ------------------------------------------------- the mapper on its own
\* the matrices SetMatrix can load
Matrices == [1..2 -> [1..2 -> -MaxCoef..MaxCoef]]
\* transmission state slots: position, velocity, current, Hardware Error Status
TransStateInputs == [Transmissions -> {<<p, v, MaxVal - p, 0>> : p, v \in 0..MaxVal}]
\* joint state slots before the call: all clear, or all holding MaxVal
JointStateInputs == {[j \in Joints |-> <<c, c, c, c>>] : c \in {0, MaxVal}}

\* CalcTransmissionToJoint with a matrix, transmission states and joint states
TransmissionToJointCalls ==
  [op : {"CalcTransmissionToJoint"}, matrix : Matrices, tstates : TransStateInputs,
   jstates : JointStateInputs]

\* CalcTransmissionToJoint(), and once more with the same transmission states
CalcTransmissionToJointCall ==
  /\ call_args.op = "CalcTransmissionToJoint"
  /\ call_ret = NoCall
  /\ LET first == TransmissionToJoint(call_args.matrix, call_args.jstates, call_args.tstates)
     IN  call_ret' =
           Returned([first |-> first,
                     again |-> TransmissionToJoint(call_args.matrix, first,
                                                   call_args.tstates)])
  /\ UNCHANGED <<dxl_status_, dxl_torque_status_, dxl_comm_err_, dxl_hw_err_,
                 dxl_torque_state_, handlers, link_torque, ctlvars, srvvars, itemvars,
                 reboot_log, call_args>>

\* command_interfaces of each dxl gpio, in the two configurations tried
GpioCommandInterfaces ==
  {[t \in Transmissions |-> <<"Goal Position">>],
   [t \in Transmissions |-> <<"Goal Position", "Goal Velocity">>]}

RECURSIVE WriteGroups(_, _)
\* InitDxlWriteItems: one command group per command interface of gpios 1..n, each
\* with the gpio's ID, one interface name and one value slot
WriteGroups(gpios, n) ==
  IF n = 0 THEN <<>>
  ELSE WriteGroups(gpios, n - 1) \o
       [c \in 1..Len(gpios[n]) |-> [id |-> TransId(n), name |-> gpios[n][c]]]

\* joint command slots, one per command interface of the joint
JointCommandInputs ==
  {c \in [Joints -> UNION {[1..n -> 0..MaxVal] : n \in 1..2}] :
     \A j \in Joints : Len(c[j]) = Len(JointCommandInterfaces[j])}

\* CalcJointToTransmission with a matrix, the gpios' command interfaces and joint
\* commands
JointToTransmissionCalls ==
  [op : {"CalcJointToTransmission"}, matrix : Matrices, gpios : GpioCommandInterfaces,
   jcmds : JointCommandInputs]

\* CalcJointToTransmission() over the command groups InitDxlWriteItems has built
CalcJointToTransmissionCall ==
  /\ call_args.op = "CalcJointToTransmission"
  /\ call_ret = NoCall
  /\ LET groups == WriteGroups(call_args.gpios, num_of_transmissions_)
         tcmds == [g \in 1..Len(groups) |-> <<0>>]
     IN  call_ret' =
           Returned([groups |-> groups,
                     tcmds |-> JointToTransmission(call_args.matrix, tcmds,
                                                   call_args.jcmds)])
  /\ UNCHANGED <<dxl_status_, dxl_torque_status_, dxl_comm_err_, dxl_hw_err_,
                 dxl_torque_state_, handlers, link_torque, ctlvars, srvvars, itemvars,
                 reboot_log, call_args>>

\* the product a * b of two 2x2 matrices
MatMul(a, b) ==
  [i \in 1..2 |-> [j \in 1..2 |-> a[i][1] * b[1][j] + a[i][2] * b[2][j]]]
Identity == [i \in 1..2 |-> [j \in 1..2 |-> IF i = j THEN 1 ELSE 0]]
\* configurations whose joint_to_transmission_matrix is the exact inverse of their
\* transmission_to_joint_matrix
Det(m) == m[1][1] * m[2][2] - m[1][2] * m[2][1]
\* the inverse of a 2x2 integer matrix of determinant 1 or -1
Inverse(m) ==
  <<<<Det(m) * m[2][2], -Det(m) * m[1][2]>>, <<-Det(m) * m[2][1], Det(m) * m[1][1]>>>>
InversePairs ==
  {pair \in {<<m, Inverse(m)>> : m \in {x \in Matrices : Det(x) \in {1, -1}}} :
     /\ pair[2] \in Matrices
     /\ MatMul(pair[2], pair[1]) = Identity
     /\ MatMul(pair[1], pair[2]) = Identity}
\* transmission vectors
TransVectors == [Transmissions -> -MaxVal..MaxVal]

\* a transmission vector taken to the joints and back
RoundTripCalls ==
  {[op |-> "RoundTrip", tj |-> pair[1], jt |-> pair[2], v |-> v] :
     pair \in InversePairs, v \in TransVectors}

\* CalcTransmissionToJoint on positions v, the joint positions taken as the joint
\* commands (SyncJointCommandWithStates), then CalcJointToTransmission
RoundTripCall ==
  /\ call_args.op = "RoundTrip"
  /\ call_ret = NoCall
  /\ LET tstates == [t \in Transmissions |-> <<call_args.v[t], 0, 0, 0>>]
         jstates == TransmissionToJoint(call_args.tj, hdl_joint_states_, tstates)
         jcmds == SyncJointCommandWithStates(jstates, hdl_joint_commands_)
         tcmds == JointToTransmission(call_args.jt, hdl_trans_commands_, jcmds)
     IN  call_ret' = Returned([t \in Transmissions |-> tcmds[t][1]])
  /\ UNCHANGED <<dxl_status_, dxl_torque_status_, dxl_comm_err_, dxl_hw_err_,
                 dxl_torque_state_, handlers, link_torque, ctlvars, srvvars, itemvars,
                 reboot_log, call_args>>

\* ---------------------------------------------------- CheckError on its own
\* the values of the one-byte Hardware Error Status register
MaxRegister == 255
\* the bulk read has succeeded and the first ID reports register value hw
CheckErrorCalls == [op : {"CheckError"}, hw : 0..MaxRegister]

\* CheckError(DxlError::OK) on a reading whose first transmission holds hw
CheckErrorCall ==
  /\ call_args.op = "CheckError"
  /\ call_ret = NoCall
  /\ LET ts == [ZeroReading EXCEPT ![1][HwIndex(1)] = call_args.hw]
         ce == CheckError(DxlError_OK, ts)
     IN  /\ call_ret' = Returned([error_string |-> TransErrorString(ts, 1),
                                  error_state |-> ce.ret])
         /\ dxl_status_' = ce.status
         /\ dxl_hw_err_' = ce.hw
         /\ hdl_trans_states_' = ts
         /\ hdl_joint_states_' = ce.joints
  /\ UNCHANGED <<dxl_torque_status_, dxl_comm_err_, dxl_torque_state_,
                 hdl_joint_commands_, hdl_trans_commands_, link_torque, ctlvars,
                 srvvars, itemvars, reboot_log, call_args>>

\* ------------------------------------------------------------ host lifecycle
\* on_activate(): start()
on_activate(outcomes) ==
  /\ pc = "read"
  /\ \E o \in outcomes : start(o)
  /\ UNCHANGED <<dxl_torque_status_, dxl_torque_state_, hdl_trans_commands_, ctlvars,
                 srvvars>>
  /\ UNCHANGED <<itemvars, reboot_log, callvars>>

\* on_deactivate(): stop()
on_deactivate ==
  /\ pc = "read"
  /\ stop
  /\ UNCHANGED <<dxl_status_, dxl_torque_status_, dxl_comm_err_, dxl_hw_err_,
                 dxl_torque_state_, handlers, ctlvars, srvvars>>
  /\ UNCHANGED <<itemvars, reboot_log, callvars>>

\* ------------------------------------------------------------------- read()
\* a read() that is refused in every degraded status
ReadRefusedUnlessOk(status) == status # DXL_OK

\* a read() without the REBOOTING branch
ReadNeverRefused(status) == FALSE

\* whether read() refuses the tick
ReadRefused(status) == status = REBOOTING

\* the status dispatch at the top of read()
ReadEntry ==
  /\ pc = "read"
  /\ IF ReadRefused(dxl_status_)
     THEN ret' = "ERROR" /\ pc' = "read_ret"
     ELSE ret' = "none" /\ pc' = "read_io"
  /\ entry_status' = dxl_status_
  /\ UNCHANGED <<dxl_status_, dxl_torque_status_, dxl_comm_err_, dxl_hw_err_,
                 dxl_torque_state_, handlers, link_torque, tick_log, cmd_before_sync,
                 srvvars>>
  /\ UNCHANGED <<itemvars, reboot_log, callvars>>

\* a read() that goes on after every classification
ReadNeverReturnsEarly(status, err) == FALSE

\* whether read() returns right after the classification
ReadReturnsEarly(status, err) == status \in {DXL_OK, COMM_ERROR} /\ err # DxlError_OK

\* the rest of read(): bulk read, CheckError, and unless it returned early
\* CalcTransmissionToJoint and ReadItemBuf
ReadBodyAt(at, outcomes) ==
  /\ pc = at
  /\ \E o \in outcomes :
       LET ts == ReadMultiDxlData(o)
           ce == CheckError(o.res, ts)
       IN  /\ hdl_trans_states_' = ts
           /\ dxl_comm_err_' = ce.ret
           /\ dxl_status_' = ce.status
           /\ dxl_hw_err_' = ce.hw
           /\ IF ReadReturnsEarly(entry_status, ce.ret)
              THEN /\ hdl_joint_states_' = ce.joints
                   /\ tick_log' = <<"ReadMultiDxlData">>
                   /\ ret' = "ERROR"
                   /\ UNCHANGED read_item_buf_
              ELSE /\ hdl_joint_states_' = CalcTransmissionToJoint(ce.joints, ts)
                   /\ tick_log' = <<"ReadMultiDxlData", "CalcTransmissionToJoint", "ReadItemBuf">>
                   /\ ret' = "OK"
                   /\ \E ok \in DrainOutcomes(read_item_buf_) :
                        read_item_buf_' = ReadItemBuf(read_item_buf_, link_items, ok)
  /\ pc' = "read_ret"
  /\ UNCHANGED <<dxl_torque_status_, dxl_torque_state_, hdl_joint_commands_,
                 hdl_trans_commands_, link_torque, entry_status, cmd_before_sync,
                 srvvars>>
  /\ UNCHANGED <<srv_item, write_item_buf_, link_items, link_writes, set_log,
                 reboot_log, callvars>>

ReadBody(outcomes) == ReadBodyAt("read_io", outcomes)

\* read() has returned: the host's control law writes the joint commands
HostUpdate(commands) ==
  /\ pc = "read_ret"
  /\ hdl_joint_commands_' \in commands \cup {hdl_joint_commands_}
  /\ pc' = "write"
  /\ tick_log' = <<>>
  /\ ret' = "none"
  /\ entry_status' = "none"
  /\ UNCHANGED <<dxl_status_, dxl_torque_status_, dxl_comm_err_, dxl_hw_err_,
                 dxl_torque_state_, hdl_trans_states_, hdl_joint_states_,
                 hdl_trans_commands_, link_torque, cmd_before_sync, srvvars>>
  /\ UNCHANGED <<itemvars, reboot_log, callvars>>

\* ------------------------------------------------------------------ write()
\* a write() that is refused in REBOOTING only
WriteAcceptedUnlessRebooting(status) == status # REBOOTING

\* the statuses in which write() runs its body
WriteAccepted(status) == status = DXL_OK \/ status = HW_ERROR

\* the status dispatch at the top of write()
WriteEntry ==
  /\ pc = "write"
  /\ IF WriteAccepted(dxl_status_)
     THEN ret' = "none" /\ pc' = "write_torque"
     ELSE ret' = "ERROR" /\ pc' = "write_ret"
  /\ entry_status' = dxl_status_
  /\ UNCHANGED <<dxl_status_, dxl_torque_status_, dxl_comm_err_, dxl_hw_err_,
                 dxl_torque_state_, handlers, link_torque, tick_log, cmd_before_sync,
                 srvvars>>
  /\ UNCHANGED <<itemvars, reboot_log, callvars>>

\* the ActuatorLink call the torque step issues for a TorqueStatus ("" for none)
TorqueCall(torque_status) ==
  IF torque_status = REQUESTED_TO_ENABLE THEN "DynamixelEnable"
  ELSE IF torque_status = REQUESTED_TO_DISABLE THEN "DynamixelDisable"
  ELSE ""

\* WriteItemBuf, then the first half of ChangeDxlTorqueState: apply a request
WriteTorque ==
  /\ pc = "write_torque"
  /\ IF TorqueCall(dxl_torque_status_) # ""
     THEN /\ link_torque' = IF TorqueCall(dxl_torque_status_) = "DynamixelEnable"
                            THEN DynamixelEnable ELSE DynamixelDisable
          /\ cmd_before_sync' = hdl_joint_commands_
          /\ hdl_joint_commands_' =
               SyncJointCommandWithStates(hdl_joint_states_, hdl_joint_commands_)
          /\ tick_log' = <<"WriteItemBuf", TorqueCall(dxl_torque_status_),
                           "SyncJointCommandWithStates">>
     ELSE /\ tick_log' = <<"WriteItemBuf">>
          /\ UNCHANGED <<link_torque, hdl_joint_commands_, cmd_before_sync>>
  /\ pc' = "write_refresh"
  /\ LET w == WriteItemBuf(write_item_buf_, link_items)
     IN  /\ link_writes' = w.sent
         /\ link_items' = w.items
         /\ write_item_buf_' = w.buf
  /\ set_log' = [p \in KnownItems |-> <<>>]
  /\ UNCHANGED <<dxl_status_, dxl_torque_status_, dxl_comm_err_, dxl_hw_err_,
                 dxl_torque_state_, hdl_trans_states_, hdl_joint_states_,
                 hdl_trans_commands_, entry_status, ret, srvvars>>
  /\ UNCHANGED <<srv_item, read_item_buf_, reboot_log, callvars>>

\* a refresh that reports TORQUE_ENABLED as soon as one ID is enabled
TorqueStatusOfAny(state) ==
  IF \E id \in DOMAIN state : state[id] THEN TORQUE_ENABLED ELSE TORQUE_DISABLED

\* TorqueStatus for a per-ID torque map
TorqueStatusOf(state) ==
  IF \E id \in DOMAIN state : state[id] = FALSE THEN TORQUE_DISABLED ELSE TORQUE_ENABLED

\* the second half of ChangeDxlTorqueState: GetDxlTorqueState and the refresh
WriteRefreshAt(at) ==
  /\ pc = at
  /\ dxl_torque_state_' = link_torque
  /\ dxl_torque_status_' = TorqueStatusOf(dxl_torque_state_')
  /\ tick_log' = tick_log \o <<"GetDxlTorqueState">>
  /\ pc' = "write_map"
  /\ UNCHANGED <<dxl_status_, dxl_comm_err_, dxl_hw_err_, handlers, link_torque,
                 entry_status, ret, cmd_before_sync, srvvars>>
  /\ UNCHANGED <<itemvars, reboot_log, callvars>>

WriteRefresh == WriteRefreshAt("write_refresh")

\* CalcJointToTransmission, then WriteMultiDxlData; write() returns OK
WriteMap ==
  /\ pc = "write_map"
  /\ hdl_trans_commands_' = CalcJointToTransmission(hdl_trans_commands_, hdl_joint_commands_)
  /\ tick_log' = tick_log \o <<"CalcJointToTransmission", "WriteMultiDxlData">>
  /\ ret' = "OK"
  /\ pc' = "write_ret"
  /\ UNCHANGED <<dxl_status_, dxl_torque_status_, dxl_comm_err_, dxl_hw_err_,
                 dxl_torque_state_, hdl_trans_states_, hdl_joint_states_,
                 hdl_joint_commands_, link_torque, entry_status, cmd_before_sync,
                 srvvars>>
  /\ UNCHANGED <<itemvars, reboot_log, callvars>>

\* write() has returned: the host goes on to the next cycle
HostNextCycle ==
  /\ pc = "write_ret"
  /\ pc' = "read"
  /\ tick_log' = <<>>
  /\ ret' = "none"
  /\ cmd_before_sync' = <<>>
  /\ entry_status' = "none"
  /\ UNCHANGED <<dxl_status_, dxl_torque_status_, dxl_comm_err_, dxl_hw_err_,
                 dxl_torque_state_, handlers, link_torque, srvvars>>
  /\ UNCHANGED <<itemvars, reboot_log, callvars>>

\* ----------------------------------------------- reboot_dxl_srv_callback
\* CommReset up to the retry loop: REBOOTING, stop(), RWDataReset
CommResetBegin ==
  /\ srv_pc = "idle"
  /\ dxl_status_' = REBOOTING
  /\ stop
  /\ srv_pc' = "reset_first"
  /\ UNCHANGED <<dxl_torque_status_, dxl_comm_err_, dxl_hw_err_, dxl_torque_state_,
                 handlers, ctlvars, srv_data, srv_response>>
  /\ reboot_log' = <<>>
  /\ UNCHANGED <<itemvars, callvars>>

\* the calls of one pass of the retry loop, in order: Reboot(id) for every ID, then
\* InitDxlItems, InitDxlReadItems and InitDxlWriteItems
AttemptPlan ==
  [n \in 1..Len(dxl_id_) |-> [call |-> "Reboot", id |-> dxl_id_[n]]] \o
  <<[call |-> "InitDxlItems", id |-> 0], [call |-> "InitDxlReadItems", id |-> 0],
    [call |-> "InitDxlWriteItems", id |-> 0]>>
\* call n of the plan with its result
AttemptCall(n, ok) == [call |-> AttemptPlan[n].call, id |-> AttemptPlan[n].id, ok |-> ok]
\* the calls of a pass whose first k calls succeed
AttemptLog(k) ==
  [n \in 1..k |-> AttemptCall(n, TRUE)] \o
  (IF k < Len(AttemptPlan) THEN <<AttemptCall(k + 1, FALSE)>> ELSE <<>>)

\* one pass of the retry loop: k calls succeed before the first failure
CommResetAttempt ==
  /\ srv_pc \in {"reset_first", "reset_loop"}
  /\ \E k \in 0..Len(AttemptPlan) :
       /\ reboot_log' = AttemptLog(k)
       /\ srv_pc' = IF k = Len(AttemptPlan) THEN "reset_start" ELSE "reset_loop"
  /\ UNCHANGED <<dxl_status_, dxl_torque_status_, dxl_comm_err_, dxl_hw_err_,
                 dxl_torque_state_, handlers, link_torque, ctlvars, srv_data,
                 srv_response>>
  /\ UNCHANGED <<itemvars, callvars>>

\* a pass that goes on after a failed call
AttemptNeverAborted(ok) == FALSE

\* whether the pass is left after a call: break / continue
AttemptAborted(ok) == ~ok

\* one call of a pass of the retry loop; a pass begins with an empty log
CommResetCall ==
  /\ srv_pc \in {"reset_first", "reset_loop", "reset_attempt"}
  /\ LET issued == IF srv_pc = "reset_attempt" THEN reboot_log ELSE <<>>
         n == Len(issued) + 1
     IN  \E ok \in BOOLEAN :
           /\ reboot_log' = Append(issued, AttemptCall(n, ok))
           /\ srv_pc' = IF AttemptAborted(ok) THEN "reset_loop"
                        ELSE IF n = Len(AttemptPlan) THEN "reset_start"
                        ELSE "reset_attempt"
  /\ UNCHANGED <<dxl_status_, dxl_torque_status_, dxl_comm_err_, dxl_hw_err_,
                 dxl_torque_state_, handlers, link_torque, ctlvars, srv_data,
                 srv_response>>
  /\ UNCHANGED <<itemvars, callvars>>

\* "RESET Success": start()
CommResetStart(outcomes) ==
  /\ srv_pc = "reset_start"
  /\ \E o \in outcomes : start(o)
  /\ srv_pc' = "reset_finish"
  /\ UNCHANGED <<dxl_torque_status_, dxl_torque_state_, hdl_trans_commands_, ctlvars,
                 srv_data, srv_response>>
  /\ UNCHANGED <<itemvars, reboot_log, callvars>>

\* dxl_status_ = DXL_OK; return true
CommResetSuccess ==
  /\ srv_pc = "reset_finish"
  /\ dxl_status_' = DXL_OK
  /\ srv_response' = [success |-> TRUE, message |-> "reboot"]
  /\ srv_pc' = "done"
  /\ UNCHANGED <<dxl_torque_status_, dxl_comm_err_, dxl_hw_err_, dxl_torque_state_,
                 handlers, link_torque, ctlvars, srv_data>>
  /\ UNCHANGED <<itemvars, reboot_log, callvars>>

\* the window is exhausted: "RESET Failure", start(), return false
CommResetFailure(outcomes) ==
  /\ srv_pc = "reset_loop"
  /\ \E o \in outcomes : start(o)
  /\ srv_response' = [success |-> FALSE, message |-> "reboot"]
  /\ srv_pc' = "done"
  /\ UNCHANGED <<dxl_torque_status_, dxl_torque_state_, hdl_trans_commands_, ctlvars,
                 srv_data>>
  /\ UNCHANGED <<itemvars, reboot_log, callvars>>

\* --------------------------------------------- set_dxl_torque_srv_callback
\* a callback without the "Already ..." returns
NeverAlreadyDone(data, torque_status) == FALSE

\* "Already enabled." / "Already disabled."
AlreadyDone(data, torque_status) ==
  \/ data /\ torque_status = TORQUE_ENABLED
  \/ ~data /\ torque_status = TORQUE_DISABLED

\* the request half: return at once or set REQUESTED_TO_*
SetTorqueRequest ==
  /\ srv_pc = "idle"
  /\ \E data \in BOOLEAN :
       /\ srv_data' = data
       /\ IF AlreadyDone(data, dxl_torque_status_)
          THEN /\ srv_response' =
                    [success |-> TRUE,
                     message |-> IF data THEN "Already enabled." ELSE "Already disabled."]
               /\ srv_pc' = "done"
               /\ UNCHANGED dxl_torque_status_
          ELSE /\ dxl_torque_status_' =
                    IF data THEN REQUESTED_TO_ENABLE ELSE REQUESTED_TO_DISABLE
               /\ srv_response' = NoResponse
               /\ srv_pc' = "torque_first"
  /\ UNCHANGED <<dxl_status_, dxl_comm_err_, dxl_hw_err_, dxl_torque_state_, handlers,
                 link_torque, ctlvars>>
  /\ UNCHANGED <<itemvars, reboot_log, callvars>>

\* one pass of the wait loop: look at dxl_torque_status_, else sleep 50 ms
SetTorquePoll ==
  /\ srv_pc \in {"torque_first", "torque_wait"}
  /\ IF dxl_torque_status_ = TORQUE_ENABLED
     THEN /\ srv_response' = IF srv_data
                             THEN [success |-> TRUE, message |-> "Success to enable."]
                             ELSE [success |-> FALSE, message |-> "Fail to enable."]
          /\ srv_pc' = "done"
     ELSE IF dxl_torque_status_ = TORQUE_DISABLED
     THEN /\ srv_response' = IF ~srv_data
                             THEN [success |-> TRUE, message |-> "Success to disable."]
                             ELSE [success |-> FALSE, message |-> "Fail to disable."]
          /\ srv_pc' = "done"
     ELSE /\ srv_pc' = "torque_wait"
          /\ UNCHANGED srv_response
  /\ UNCHANGED <<dxl_status_, dxl_torque_status_, dxl_comm_err_, dxl_hw_err_,
                 dxl_torque_state_, handlers, link_torque, ctlvars, srv_data>>
  /\ UNCHANGED <<itemvars, reboot_log, callvars>>

\* a timeout that takes the request back
SetTorqueTimeoutReverting ==
  /\ srv_pc = "torque_wait"
  /\ srv_response' =
       [success |-> FALSE, message |-> "Fail to write requeset. main thread is not running."]
  /\ srv_pc' = "done"
  /\ dxl_torque_status_' = IF srv_data THEN TORQUE_DISABLED ELSE TORQUE_ENABLED
  /\ UNCHANGED <<dxl_status_, dxl_comm_err_, dxl_hw_err_,
                 dxl_torque_state_, handlers, link_torque, ctlvars, srv_data>>
  /\ UNCHANGED <<itemvars, reboot_log, callvars>>

\* the one-second wait is over
SetTorqueTimeout ==
  /\ srv_pc = "torque_wait"
  /\ srv_response' =
       [success |-> FALSE, message |-> "Fail to write requeset. main thread is not running."]
  /\ srv_pc' = "done"
  /\ UNCHANGED <<dxl_status_, dxl_torque_status_, dxl_comm_err_, dxl_hw_err_,
                 dxl_torque_state_, handlers, link_torque, ctlvars, srv_data>>
  /\ UNCHANGED <<itemvars, reboot_log, callvars>>

\* ------------------------------- get_dxl_data_srv_callback / set_dxl_data
\* a callback that polls whatever InsertReadItemBuf returned
GetItemNeverRefused(res) == FALSE

\* whether get_dxl_data_srv_callback returns right after InsertReadItemBuf
GetItemRefused(res) == res # DxlError_OK

\* InsertReadItemBuf; on an error result = false and return
GetItemRequest ==
  /\ srv_pc = "idle"
  /\ \E it \in Items :
       LET r == InsertReadItemBuf(read_item_buf_, it)
       IN  /\ srv_item' = it
           /\ read_item_buf_' = r.buf
           /\ IF GetItemRefused(r.res)
              THEN /\ srv_response' = [success |-> FALSE, message |-> "get_dxl_data"]
                   /\ srv_pc' = "done"
              ELSE /\ srv_response' = NoResponse
                   /\ srv_pc' = "get_first"
  /\ UNCHANGED <<dxl_status_, dxl_torque_status_, dxl_comm_err_, dxl_hw_err_,
                 dxl_torque_state_, handlers, link_torque, ctlvars, srv_data,
                 write_item_buf_, link_items, link_writes, set_log, reboot_log,
                 callvars>>

\* one pass of the wait loop: CheckReadItemBuf; when ready item_data and result = true
GetItemPoll ==
  /\ srv_pc \in {"get_first", "get_wait"}
  /\ IF CheckReadItemBuf(read_item_buf_, srv_item)
     THEN /\ srv_response' =
               [success |-> TRUE, message |-> "get_dxl_data",
                item_data |-> GetReadItemDataBuf(read_item_buf_, srv_item)]
          /\ read_item_buf_' = WithoutSlot(read_item_buf_, srv_item)
          /\ srv_pc' = "done"
     ELSE /\ srv_pc' = "get_wait"
          /\ UNCHANGED <<srv_response, read_item_buf_>>
  /\ UNCHANGED <<dxl_status_, dxl_torque_status_, dxl_comm_err_, dxl_hw_err_,
                 dxl_torque_state_, handlers, link_torque, ctlvars, srv_data, srv_item,
                 write_item_buf_, link_items, link_writes, set_log, reboot_log,
                 callvars>>

\* timeout_sec is over: result = false
GetItemTimeout ==
  /\ srv_pc = "get_wait"
  /\ srv_response' = [success |-> FALSE, message |-> "get_dxl_data"]
  /\ srv_pc' = "done"
  /\ UNCHANGED <<dxl_status_, dxl_torque_status_, dxl_comm_err_, dxl_hw_err_,
                 dxl_torque_state_, handlers, link_torque, ctlvars, srv_data, itemvars,
                 reboot_log, callvars>>

\* a callback that queues a default value instead of the request's data
SetItemDataDropped(item_data) == 0

\* dxl_data = static_cast<uint32_t>(request->item_data): the value itself for the
\* non-negative data of the requests modelled
SetItemData(item_data) == IF item_data >= 0 THEN item_data ELSE -item_data

\* set_dxl_data_srv_callback: InsertWriteItemBuf; result = (it returned OK)
SetItemRequest ==
  /\ srv_pc = "idle"
  /\ \E it \in Items, item_data \in 0..MaxVal :
       LET dxl_data == SetItemData(item_data)
           r == InsertWriteItemBuf(write_item_buf_, it, dxl_data)
       IN  /\ it \in KnownItems => Len(set_log[it]) < MaxSetCalls
           /\ srv_item' = it
           /\ write_item_buf_' = r.buf
           /\ srv_response' = [success |-> r.res = DxlError_OK, message |-> "set_dxl_data",
                               item_data |-> item_data]
           /\ set_log' = IF r.res = DxlError_OK
                         THEN [set_log EXCEPT ![it] = Append(@, item_data)]
                         ELSE set_log
  /\ srv_pc' = "done"
  /\ UNCHANGED <<dxl_status_, dxl_torque_status_, dxl_comm_err_, dxl_hw_err_,
                 dxl_torque_state_, handlers, link_torque, ctlvars, srv_data,
                 read_item_buf_, link_items, link_writes, reboot_log, callvars>>

\* the callback has returned; the response leaves with spin_some
SrvReturn ==
  /\ srv_pc = "done"
  /\ srv_pc' = "idle"
  /\ srv_response' = NoResponse
  /\ srv_data' = FALSE
  /\ srv_item' = NoItem
  /\ UNCHANGED <<dxl_status_, dxl_torque_status_, dxl_comm_err_, dxl_hw_err_,
                 dxl_torque_state_, handlers, link_torque, ctlvars>>
  /\ reboot_log' = <<>>
  /\ UNCHANGED <<read_item_buf_, write_item_buf_, link_items, link_writes, set_log,
                 callvars>>

\* ------------------------------------- map accesses, statement by statement
\* CheckError has passed its transport check and is inside the loop that stores
\* into dxl_hw_err_
CheckErrorStoreBegin ==
  /\ pc = "read_io"
  /\ pc' = "read_store"
  /\ UNCHANGED <<dxl_status_, dxl_torque_status_, dxl_comm_err_, dxl_hw_err_,
                 dxl_torque_state_, handlers, link_torque, entry_status, tick_log, ret,
                 cmd_before_sync, srvvars>>
  /\ UNCHANGED <<itemvars, reboot_log, callvars>>

\* the stores into dxl_hw_err_ are done; the rest of read()
CheckErrorStoreEnd(outcomes) ==
  ReadBodyAt("read_store", {o \in outcomes : o.res = DxlError_OK})

\* ChangeDxlTorqueState is inside the assignment that replaces dxl_torque_state_
TorqueStateReplaceBegin ==
  /\ pc = "write_refresh"
  /\ pc' = "write_replace"
  /\ UNCHANGED <<dxl_status_, dxl_torque_status_, dxl_comm_err_, dxl_hw_err_,
                 dxl_torque_state_, handlers, link_torque, entry_status, tick_log, ret,
                 cmd_before_sync, srvvars>>
  /\ UNCHANGED <<itemvars, reboot_log, callvars>>

\* dxl_torque_state_ is replaced; the refresh loop
TorqueStateReplaceEnd == WriteRefreshAt("write_replace")

\* positions of ros_update_thread_ inside its loop over hdl_trans_states_: reading
\* dxl_hw_err_[it.id], reading dxl_torque_state_[it.id]
PubHwPc == <<"pub_hw_1", "pub_hw_2">>
PubTorquePc == <<"pub_torque_1", "pub_torque_2">>

\* ros_update_thread_: trylock, stamp, comm_state; the loop begins
PublishBegin ==
  /\ srv_pc = "idle"
  /\ srv_pc' = PubHwPc[1]
  /\ UNCHANGED <<dxl_status_, dxl_torque_status_, dxl_comm_err_, dxl_hw_err_,
                 dxl_torque_state_, handlers, link_torque, ctlvars, srv_data,
                 srv_response>>
  /\ UNCHANGED <<itemvars, reboot_log, callvars>>

\* msg_.dxl_hw_state.at(index) = dxl_hw_err_[it.id]
PublishHwRead ==
  /\ \E i \in Transmissions : srv_pc = PubHwPc[i] /\ srv_pc' = PubTorquePc[i]
  /\ UNCHANGED <<dxl_status_, dxl_torque_status_, dxl_comm_err_, dxl_hw_err_,
                 dxl_torque_state_, handlers, link_torque, ctlvars, srv_data,
                 srv_response>>
  /\ UNCHANGED <<itemvars, reboot_log, callvars>>

\* msg_.torque_state.at(index) = dxl_torque_state_[it.id]: operator[] inserts a
\* false entry for an ID the map does not hold; after the last transmission
\* unlockAndPublish
PublishTorqueRead ==
  /\ \E i \in Transmissions :
       /\ srv_pc = PubTorquePc[i]
       /\ srv_pc' = IF i < num_of_transmissions_ THEN PubHwPc[i + 1] ELSE "idle"
       /\ dxl_torque_state_' =
            IF TransId(i) \in DOMAIN dxl_torque_state_
            THEN dxl_torque_state_
            ELSE [id \in DOMAIN dxl_torque_state_ \cup {TransId(i)} |->
                    IF id = TransId(i) THEN FALSE ELSE dxl_torque_state_[id]]
  /\ UNCHANGED <<dxl_status_, dxl_torque_status_, dxl_comm_err_, dxl_hw_err_,
                 handlers, link_torque, ctlvars, srv_data, srv_response>>
  /\ UNCHANGED <<itemvars, reboot_log, callvars>>

\* ---------------------------------------------------------- specifications
\* the control cycle
Cycle(outcomes, commands) ==
  \/ ReadEntry
  \/ ReadBody(outcomes)
  \/ HostUpdate(commands)
  \/ WriteEntry
  \/ WriteTorque
  \/ WriteRefresh
  \/ WriteMap
  \/ HostNextCycle

\* the reboot service
Reboot(outcomes) ==
  \/ CommResetBegin
  \/ CommResetAttempt
  \/ CommResetStart(outcomes)
  \/ CommResetSuccess
  \/ CommResetFailure(outcomes)

\* the torque service
SetTorque ==
  \/ SetTorqueRequest
  \/ SetTorquePoll
  \/ SetTorqueTimeout

\* every operation, with transport failures and hardware faults, values at rest
Next ==
  \/ on_activate(FaultOutcomes)
  \/ on_deactivate
  \/ Cycle(FaultOutcomes, HostIdle)
  \/ Reboot(FaultOutcomes)
  \/ SetTorque
  \/ SrvReturn

Spec == Init /\ [][Next]_vars

\* the control cycle and the reboot service, with failures, faults and moving values
NextReboot ==
  \/ Cycle(RebootOutcomes, HostCommands)
  \/ Reboot(RebootOutcomes)
  \/ SrvReturn

SpecReboot == Init /\ [][NextReboot]_vars

\* the control cycle and the torque service, with moving values and no failure
NextTorque ==
  \/ Cycle(ValueOutcomes, HostCommands)
  \/ SetTorque
  \/ SrvReturn

SpecTorque == Init /\ [][NextTorque]_vars

\* the ad hoc register services
GetItem ==
  \/ GetItemRequest
  \/ GetItemPoll
  \/ GetItemTimeout

\* the control cycle and the register services, with transport failures
NextItem ==
  \/ Cycle({ReadFailed} \cup ReadOk({ZeroReading}), HostIdle)
  \/ GetItem
  \/ SetItemRequest
  \/ SrvReturn

SpecItem == Init /\ [][NextItem]_vars

\* the control cycle and get_dxl_data_srv_callback, with transport failures
NextGetItem ==
  \/ Cycle({ReadFailed} \cup ReadOk({ZeroReading}), HostIdle)
  \/ GetItem
  \/ SrvReturn

SpecGetItem == Init /\ [][NextGetItem]_vars

\* the control cycle and set_dxl_data_srv_callback, with transport failures
NextSetItem ==
  \/ Cycle({ReadFailed} \cup ReadOk({ZeroReading}), HostIdle)
  \/ SetItemRequest
  \/ SrvReturn

SpecSetItem == Init /\ [][NextSetItem]_vars

\* on_init() on every configuration
InitConfig ==
  /\ InitMembers
  /\ call_args \in Configs
  /\ call_ret = NoCall

SpecInit == InitConfig /\ [][on_init]_vars

\* CheckError applied on its own to every register value
InitCauses ==
  /\ InitMembers
  /\ call_args \in CheckErrorCalls
  /\ call_ret = NoCall

SpecCauses == InitCauses /\ [][CheckErrorCall]_vars

\* the mapper applied on its own to every input
InitMap ==
  /\ InitMembers
  /\ dxl_comm_err_ = DxlError_OK
  /\ link_torque = [id \in IdSet |-> FALSE]
  /\ call_args \in
       TransmissionToJointCalls \cup JointToTransmissionCalls \cup RoundTripCalls
  /\ call_ret = NoCall

NextMap ==
  \/ CalcTransmissionToJointCall
  \/ CalcJointToTransmissionCall
  \/ RoundTripCall

SpecMap == InitMap /\ [][NextMap]_vars

\* the reboot service with the passes of its retry loop taken call by call
NextAttempt ==
  \/ CommResetBegin
  \/ CommResetCall
  \/ CommResetStart(FaultOutcomes)
  \/ CommResetSuccess
  \/ CommResetFailure(FaultOutcomes)
  \/ SrvReturn

SpecAttempt == Init /\ [][NextAttempt]_vars

\* the control cycle alone, with every hardware-error register value
NextFault == Cycle(HwOutcomes, HostIdle)

SpecFault == Init /\ [][NextFault]_vars

\* the control cycle with its map updates taken statement by statement, and the
\* state publication of ros_update_thread_
NextTelemetry ==
  \/ ReadEntry
  \/ ReadBody({ReadFailed})
  \/ CheckErrorStoreBegin
  \/ CheckErrorStoreEnd(FaultOutcomes)
  \/ HostUpdate(HostIdle)
  \/ WriteEntry
  \/ WriteTorque
  \/ TorqueStateReplaceBegin
  \/ TorqueStateReplaceEnd
  \/ WriteMap
  \/ HostNextCycle
  \/ PublishBegin
  \/ PublishHwRead
  \/ PublishTorqueRead

SpecTelemetry == Init /\ [][NextTelemetry]_vars

\* ------------------------------------------------------------------ claims
\* a half of the tick (read() or write()) takes its status dispatch
EntersHalf == pc \in {"read", "write"} /\ pc' # pc
\* the half returns ERROR from the dispatch: no ActuatorLink operation, no slot touched
RefusedHalf ==
  /\ pc' = (IF pc = "read" THEN "read_ret" ELSE "write_ret")
  /\ ret' = "ERROR"
  /\ tick_log' = <<>>
  /\ UNCHANGED <<handlers, link_torque, dxl_status_, dxl_torque_status_, dxl_comm_err_,
                 dxl_hw_err_, dxl_torque_state_>>

\* C1: a tick half that begins while dxl_status_ is REBOOTING returns ERROR without
\* performing any ActuatorLink operation and without modifying any handler slot
C1_RebootingTickRefused ==
  [][(EntersHalf /\ dxl_status_ = REBOOTING) => RefusedHalf]_vars

\* read() was refused in REBOOTING and the status is still REBOOTING
C1_Witness ==
  /\ pc = "read_ret"
  /\ entry_status = REBOOTING
  /\ ret = "ERROR"
  /\ tick_log = <<>>
  /\ dxl_status_ = REBOOTING

\* the reboot callback is inside CommReset
InReboot == srv_pc \in {"reset_first", "reset_loop", "reset_attempt", "reset_start", "reset_finish"}

\* C2: from the moment the reboot sets REBOOTING until CommReset returns, dxl_status_
\* stays REBOOTING and no tick performs an ActuatorLink operation, under every
\* interleaving of the service thread with the control cycle
C2_RebootSerialized ==
  [][InReboot => ((InReboot' => dxl_status_' = REBOOTING)
                  /\ Len(tick_log') <= Len(tick_log))]_vars

\* a tick's classification has overwritten REBOOTING while CommReset is in its loop
C2_Witness ==
  /\ srv_pc = "reset_first"
  /\ pc = "read_ret"
  /\ tick_log # <<>>
  /\ dxl_status_ = COMM_ERROR

\* CommReset has returned false
RebootFailed == srv_pc = "done" /\ srv_response = [success |-> FALSE, message |-> "reboot"]

\* C3: when the window is exhausted the reboot returns failure and dxl_status_ is no
\* longer REBOOTING on return, whatever the final bulk read gave
C3_FailOpen == RebootFailed => dxl_status_ # REBOOTING

\* no reboot is running, dxl_status_ is still REBOOTING and read() is refused
C3_Witness ==
  /\ srv_pc = "idle"
  /\ dxl_status_ = REBOOTING
  /\ pc = "read_ret"
  /\ entry_status = REBOOTING
  /\ ret = "ERROR"

\* write() takes its status dispatch
EntersWrite == pc = "write" /\ pc' # pc
\* the operations of an accepted write(), as logged
FullWriteLog(log) ==
  /\ Len(log) \in {4, 6}
  /\ log[1] = "WriteItemBuf"
  /\ (Len(log) = 6 => (log[2] \in {"DynamixelEnable", "DynamixelDisable"}
                        /\ log[3] = "SyncJointCommandWithStates"))
  /\ log[Len(log) - 2] = "GetDxlTorqueState"
  /\ log[Len(log) - 1] = "CalcJointToTransmission"
  /\ log[Len(log)] = "WriteMultiDxlData"

Requested == {REQUESTED_TO_ENABLE, REQUESTED_TO_DISABLE}

\* C6: a request left in dxl_torque_status_ is only replaced by a torque step that has
\* issued the matching DynamixelEnable / DynamixelDisable; the refresh never
\* overwrites a request that was not applied
C6_RequestNeverLost ==
  [][(dxl_torque_status_ \in Requested /\ dxl_torque_status_' \notin Requested) =>
       (Len(tick_log') >= 2 /\ tick_log'[2] = TorqueCall(dxl_torque_status_))]_vars

\* the refresh has replaced a request to disable although the tick issued no call,
\* and the caller is answered from that value
C6_Witness ==
  /\ srv_pc = "torque_first"
  /\ ~srv_data
  /\ pc = "write_map"
  /\ tick_log = <<"WriteItemBuf", "GetDxlTorqueState">>
  /\ dxl_torque_status_ \notin Requested

\* set_dxl_torque_srv_callback is entered with a request already satisfied
NoOpRequest ==
  /\ srv_pc = "idle"
  /\ srv_pc' \in {"done", "torque_first"}
  /\ \/ srv_data' /\ dxl_torque_status_ = TORQUE_ENABLED
     \/ ~srv_data' /\ dxl_torque_status_ = TORQUE_DISABLED

\* C9: SetTorque(enable) while TORQUE_ENABLED and SetTorque(disable) while
\* TORQUE_DISABLED return success at once and leave dxl_torque_status_ as it is; a
\* torque step that finds no request issues no DynamixelEnable / DynamixelDisable
C9_NoOpRequest ==
  [][(NoOpRequest =>
        (/\ srv_pc' = "done"
         /\ srv_response'.success
         /\ UNCHANGED <<dxl_torque_status_, link_torque, handlers>>))
     /\ ((pc = "write_torque" /\ pc' # pc /\ dxl_torque_status_ \notin Requested) =>
           (tick_log' = <<"WriteItemBuf">> /\ UNCHANGED link_torque))]_vars

\* an "Already disabled." answer, and the tick after it has run its torque step
\* without a call
C9_Witness ==
  /\ srv_pc = "done"
  /\ srv_response = [success |-> TRUE, message |-> "Already disabled."]
  /\ dxl_torque_status_ = TORQUE_DISABLED
  /\ pc = "write_refresh"
  /\ tick_log = <<"WriteItemBuf">>

\* C10: the refresh at the end of the torque step sets dxl_torque_status_ to
\* TORQUE_ENABLED if every ID is reported enabled and to TORQUE_DISABLED if at least
\* one is reported disabled, never leaving a REQUESTED_TO_* value
C10_RefreshResult ==
  [][(pc = "write_refresh" /\ pc' # pc) =>
       (/\ dxl_torque_state_' = link_torque
        /\ dxl_torque_status_' =
             IF \A i \in 1..Len(dxl_id_) : link_torque[dxl_id_[i]]
             THEN TORQUE_ENABLED ELSE TORQUE_DISABLED)]_vars

\* one ID enabled, one disabled, and the refresh has concluded TORQUE_DISABLED
C10_Witness ==
  /\ pc = "write_map"
  /\ dxl_torque_state_ = link_torque
  /\ link_torque[dxl_id_[1]]
  /\ ~link_torque[dxl_id_[2]]
  /\ dxl_torque_status_ = TORQUE_DISABLED

\* in joint commands c, every command interface of every joint holds the value of the
\* joint state interface of the same name in joint states js
CommandsEqualStates(c, js) ==
  \A j \in Joints : \A k \in 1..Len(JointCommandInterfaces[j]) :
    \E i \in 1..Len(JointStateInterfaces) :
      JointStateInterfaces[i] = JointCommandInterfaces[j][k] /\ c[j][k] = js[j][i]

\* CommReset has returned true
RebootSucceeded == srv_pc = "done" /\ srv_response = [success |-> TRUE, message |-> "reboot"]

\* C4: when a reboot attempt succeeds, the start() that follows leaves every joint
\* command equal to the joint state of the same interface, also when its bulk read
\* fails or reports a hardware fault, and the reboot returns true with dxl_status_
\* DXL_OK
C4_RebootSuccessResyncs ==
  [][((srv_pc = "reset_start" /\ srv_pc' = "reset_finish") =>
        CommandsEqualStates(hdl_joint_commands_', hdl_joint_states_'))
     /\ ((srv_pc = "reset_finish" /\ srv_pc' = "done") =>
           (dxl_status_' = DXL_OK /\ srv_response'.success))]_vars

\* the reboot has returned true after a failed bulk read, and the position command
\* of joint 1 differs from its position state
C4_Witness ==
  /\ RebootSucceeded
  /\ dxl_comm_err_ = DxlError_COMM
  /\ dxl_status_ = DXL_OK
  /\ hdl_joint_commands_[1][1] # hdl_joint_states_[1][1]

\* the torque step applies a request
AppliesRequest == pc = "write_torque" /\ pc' # pc /\ dxl_torque_status_ \in Requested

\* C7: the torque step that applies a request sets, after the enable/disable call,
\* every command interface of every joint to the joint's state value of that
\* interface, not only the first one
C7_ResyncEveryInterface ==
  [][AppliesRequest => CommandsEqualStates(hdl_joint_commands_', hdl_joint_states_)]_vars

\* a request has been applied and the velocity command of joint 1 is not its
\* velocity state
C7_Witness ==
  /\ pc = "write_refresh"
  /\ Len(tick_log) = 3
  /\ hdl_joint_commands_[1][1] = hdl_joint_states_[1][1]
  /\ hdl_joint_commands_[1][2] # hdl_joint_states_[1][2]

\* the transmission commands that joint_to_transmission_matrix_ gives for the first
\* command value of each joint in c
MappedFrom(c) ==
  [t \in Transmissions |->
     <<joint_to_transmission_matrix_[t][1] * c[1][1]
       + joint_to_transmission_matrix_[t][2] * c[2][1]>>]
\* the position states of the joints, as first command values
PositionStates == [j \in Joints |-> <<hdl_joint_states_[j][1]>>]

\* C8: an accepted write() runs WriteItemBuf, the torque step, CalcJointToTransmission
\* and WriteMultiDxlData in this order; in a tick that applies a request the
\* transmission commands written are mapped from the resynchronized commands, i.e.
\* from the current joint states
C8_WriteOrder ==
  [][(pc = "write_map" /\ pc' # pc) =>
       (/\ pc' = "write_ret"
        /\ FullWriteLog(tick_log')
        /\ hdl_trans_commands_' = MappedFrom(hdl_joint_commands_)
        /\ (Len(tick_log') = 6 => hdl_trans_commands_' = MappedFrom(PositionStates)))]_vars

\* a tick has applied a request and written transmission commands that differ from
\* the mapping of the commands held before the resync
C8_Witness ==
  /\ pc = "write_ret"
  /\ Len(tick_log) = 6
  /\ cmd_before_sync # <<>>
  /\ hdl_trans_commands_ = MappedFrom(PositionStates)
  /\ hdl_trans_commands_ # MappedFrom(cmd_before_sync)

\* the response of a SetTorque call that gave up waiting
TimedOut ==
  [success |-> FALSE, message |-> "Fail to write requeset. main thread is not running."]

\* C11: a SetTorque call that times out returns failure and leaves dxl_torque_status_
\* as it is: a request no tick has applied stays REQUESTED_TO_*
C11_TimeoutKeepsRequest ==
  [][(srv_pc = "torque_wait" /\ srv_pc' = "done" /\ dxl_torque_status_ \in Requested) =>
       (/\ srv_response' = TimedOut
        /\ ~srv_response'.success
        /\ dxl_torque_status_' = dxl_torque_status_)]_vars

\* the caller has timed out while write() is refused in COMM_ERROR, and the request
\* to disable is still there
C11_Witness ==
  /\ srv_pc = "done"
  /\ srv_response = TimedOut
  /\ ~srv_data
  /\ dxl_torque_status_ = REQUESTED_TO_DISABLE
  /\ dxl_status_ = COMM_ERROR
  /\ pc = "write_ret"
  /\ ret = "ERROR"

\* read() runs its bulk read and the classification
ClassifiesRead == pc = "read_io" /\ pc' = "read_ret"

\* C12: when the bulk read of a tick fails at the transport level, dxl_status_ becomes
\* COMM_ERROR and no hardware-error bit is inspected: every dxl_hw_err_ entry keeps
\* its value
C12_CommErrorShortCircuit ==
  [][(ClassifiesRead /\ dxl_comm_err_' = DxlError_COMM) =>
       (dxl_status_' = COMM_ERROR /\ dxl_hw_err_' = dxl_hw_err_)]_vars

\* a tick whose bulk read failed while ID 5 had a hardware-error bit recorded
C12_Witness ==
  /\ pc = "read_ret"
  /\ tick_log = <<"ReadMultiDxlData">>
  /\ dxl_comm_err_ = DxlError_COMM
  /\ dxl_status_ = COMM_ERROR
  /\ dxl_hw_err_[dxl_id_[1]] = 1

\* the documented error bits of the Hardware Error Status register
KnownErrorBits == {1, 4, 8, 16, 32}
\* register value hw has a documented error bit set
HasKnownErrorBit(hw) == \E b \in KnownErrorBits : BitAnd(hw, b) # 0
\* position of the hardware-status channel in a joint state group
HwStateSlot == CHOOSE k \in 1..Len(JointStateInterfaces) :
                 JointStateInterfaces[k] = HW_IF_HARDWARE_STATE

\* C13: after a tick whose bulk read succeeds and finds a documented error bit in the
\* Hardware Error Status of some ID, dxl_status_ is HW_ERROR, dxl_hw_err_ of every ID
\* is the register value just read, and every hardware_state joint slot is nonzero
C13_HardwareFaultSurfaces ==
  [][(/\ ClassifiesRead
      /\ dxl_comm_err_' # DxlError_COMM
      /\ \E i \in Transmissions : HasKnownErrorBit(hdl_trans_states_'[i][4])) =>
       (/\ dxl_status_' = HW_ERROR
        /\ \A i \in Transmissions : dxl_hw_err_'[dxl_id_[i]] = hdl_trans_states_'[i][4]
        /\ \A j \in Joints : hdl_joint_states_'[j][HwStateSlot] # 0)]_vars

\* a tick has read error bit 0x01 for ID 5
C13_Witness ==
  /\ pc = "read_ret"
  /\ entry_status = DXL_OK
  /\ hdl_trans_states_[1][4] = 1
  /\ dxl_hw_err_[5] = 1
  /\ dxl_status_ = HW_ERROR
  /\ \A j \in Joints : hdl_joint_states_[j][HwStateSlot] # 0

\* C14: after every accepted tick each hardware_state joint slot reflects that tick's
\* classification: 0 if it was OK, nonzero if the tick saw a transport failure or a
\* hardware fault
C14_SlotMirrorsClassification ==
  [][ClassifiesRead =>
       \A j \in Joints :
         IF dxl_comm_err_' = DxlError_OK
         THEN hdl_joint_states_'[j][HwStateSlot] = 0
         ELSE hdl_joint_states_'[j][HwStateSlot] # 0]_vars

\* a tick has seen a transport failure and the hardware_state slots still read 0
C14_Witness ==
  /\ pc = "read_ret"
  /\ tick_log = <<"ReadMultiDxlData">>
  /\ dxl_comm_err_ = DxlError_COMM
  /\ dxl_status_ = COMM_ERROR
  /\ \A j \in Joints : hdl_joint_states_[j][HwStateSlot] = 0

\* the operations of a read() that ran to its end, as logged
FullReadLog == <<"ReadMultiDxlData", "CalcTransmissionToJoint", "ReadItemBuf">>

C16_RebootingOnlyByRequest ==
  [][(dxl_status_ # REBOOTING /\ dxl_status_' = REBOOTING) =>
       (srv_pc = "idle" /\ srv_pc' = "reset_first" /\ UNCHANGED ctlvars)]_vars

\* a reboot has been requested in COMM_ERROR, after a tick with a failed bulk read
C16_Witness ==
  /\ srv_pc = "reset_first"
  /\ dxl_status_ = REBOOTING
  /\ dxl_comm_err_ = DxlError_COMM
  /\ pc = "read_ret"
  /\ entry_status = COMM_ERROR

\* C17: once dxl_status_ is COMM_ERROR or HW_ERROR no tick sets it back to DXL_OK, not
\* even one whose bulk read is clean; DXL_OK is only entered when CommReset returns
\* true
C17_OkOnlyByReboot ==
  [][(dxl_status_ # DXL_OK /\ dxl_status_' = DXL_OK) =>
       (/\ srv_pc = "reset_finish"
        /\ srv_pc' = "done"
        /\ srv_response'.success
        /\ UNCHANGED ctlvars)]_vars

\* a read() entered in COMM_ERROR has had a clean bulk read and the status is
\* still COMM_ERROR, with no reboot running
C17_Witness ==
  /\ pc = "read_ret"
  /\ entry_status = COMM_ERROR
  /\ tick_log = FullReadLog
  /\ dxl_comm_err_ = DxlError_OK
  /\ \A i \in Transmissions : dxl_hw_err_[dxl_id_[i]] = 0
  /\ dxl_status_ = COMM_ERROR
  /\ srv_pc = "idle"

\* read() takes its status dispatch
EntersRead == pc = "read" /\ pc' # pc

\* C18: a read() entered in COMM_ERROR or HW_ERROR (as in DXL_OK) issues its bulk read;
\* REBOOTING is the only status in which read() issues none
C18_ReadRetriedUnlessRebooting ==
  [][/\ (EntersRead =>
           IF dxl_status_ = REBOOTING
           THEN pc' = "read_ret" /\ tick_log' = <<>>
           ELSE pc' = "read_io" /\ entry_status' = dxl_status_)
     /\ ((pc = "read_io" /\ pc' # pc) =>
           (tick_log' # <<>> /\ tick_log'[1] = "ReadMultiDxlData"))]_vars

\* a read() entered in HW_ERROR has issued its bulk read
C18_Witness ==
  /\ pc = "read_ret"
  /\ entry_status = HW_ERROR
  /\ tick_log # <<>>
  /\ tick_log[1] = "ReadMultiDxlData"

\* what the outside can see of a fault: comm_state of the periodic broadcast
\* (dxl_comm_err_), the dxl_hw_err_ entries, the hardware_state joint slots
SomeIndicatorNonzero ==
  \/ dxl_comm_err_ # DxlError_OK
  \/ \E i \in Transmissions : dxl_hw_err_[dxl_id_[i]] # 0
  \/ \E j \in Joints : hdl_joint_states_[j][HwStateSlot] # 0

\* C19: whenever dxl_status_ is COMM_ERROR or HW_ERROR after a tick, at least one
\* visible indicator is nonzero
C19_NoSilentDegradation ==
  (pc = "read_ret" /\ dxl_status_ \in {COMM_ERROR, HW_ERROR}) => SomeIndicatorNonzero

\* read() has returned OK in COMM_ERROR with every indicator clear, and the write()
\* of the same tick is refused
C19_Witness ==
  /\ pc = "write_ret"
  /\ entry_status = COMM_ERROR
  /\ ret = "ERROR"
  /\ dxl_status_ = COMM_ERROR
  /\ ~SomeIndicatorNonzero

\* the control cycle is in the middle of updating this map ("" for none)
MapBeingWritten ==
  IF pc = "read_store" THEN "dxl_hw_err_"
  ELSE IF pc = "write_replace" THEN "dxl_torque_state_"
  ELSE ""
\* ros_update_thread_ is accessing this map ("" for none)
MapBeingPublished ==
  IF \E i \in Transmissions : srv_pc = PubHwPc[i] THEN "dxl_hw_err_"
  ELSE IF \E i \in Transmissions : srv_pc = PubTorquePc[i] THEN "dxl_torque_state_"
  ELSE ""

\* C20: accesses to dxl_hw_err_ and to dxl_torque_state_ exclude each other: the
\* publishing thread never accesses one of these maps while the control cycle is in
\* the middle of updating or replacing it
C20_MapAccessGuarded ==
  MapBeingWritten # "" => MapBeingPublished # MapBeingWritten

\* ros_update_thread_ is in dxl_torque_state_[it.id] while ChangeDxlTorqueState
\* replaces the map
C20_Witness ==
  /\ pc = "write_replace"
  /\ srv_pc = PubTorquePc[1]

\* a step of get_dxl_data_srv_callback
GetItemStep ==
  /\ srv_pc' # srv_pc
  /\ \/ srv_pc \in {"get_first", "get_wait"}
     \/ srv_pc = "idle" /\ srv_response'.message \in {"get_dxl_data", "none"}
                        /\ srv_pc' \in {"get_first", "done"}
\* get_dxl_data_srv_callback returns result = false
GetItemFails ==
  /\ GetItemStep
  /\ srv_pc' = "done"
  /\ ~srv_response'.success

\* C21: a GetItem that fails reports it to its caller only: no step of the call
\* changes CommStatus, TorqueStatus, HardwareErrorBits or a handler slot, and
\* for an unknown item the failure is returned by the first step, without polling
C21_GetItemFailureLocal ==
  [][/\ (GetItemStep) =>
          (UNCHANGED <<dxl_status_, dxl_torque_status_, dxl_hw_err_, handlers>>)
     /\ (GetItemFails /\ srv_item' \notin KnownItems) => (srv_pc = "idle")
     /\ (GetItemStep /\ srv_pc = "idle" /\ srv_item' \notin KnownItems) =>
          (GetItemFails)]_vars

\* a GetItem for a known item has timed out with its read still pending
C21_Witness ==
  /\ srv_pc = "done"
  /\ srv_response = [success |-> FALSE, message |-> "get_dxl_data"]
  /\ srv_item \in DOMAIN read_item_buf_
  /\ ~read_item_buf_[srv_item].ready

\* a GetItem for an unknown item has returned
C21_WitnessUnknown ==
  /\ srv_pc = "done"
  /\ srv_response = [success |-> FALSE, message |-> "get_dxl_data"]
  /\ srv_item \notin KnownItems

\* WriteItemBuf runs: the drain of the pending writes
DrainsWrites == pc = "write_torque" /\ pc' = "write_refresh"
\* the writes of seq that address pair p
WritesFor(seq, p) == {n \in 1..Len(seq) : seq[n].item = p}

InitReturned == call_args.op = "on_init" /\ call_ret.op = "return"

\* C23: on_init() returns ERROR whenever the configured number of transmissions
\* differs from the number of transmission state groups or from the number of
\* transmission command groups, and whenever the configured number of joints differs
\* from the number of joint state groups or of joint command groups
C23_AnyMismatchFails ==
  InitReturned =>
    ((\/ call_args.number_of_transmissions # call_args.gpio_states
      \/ call_args.number_of_transmissions # call_args.gpio_commands
      \/ call_args.number_of_joints # call_args.joints)
       => call_ret.value = "ERROR")

\* on_init() went on although the transmission command groups do not match
C23_Witness ==
  /\ InitReturned
  /\ call_args.number_of_transmissions = call_args.gpio_states
  /\ call_args.number_of_transmissions # call_args.gpio_commands
  /\ call_args.number_of_joints = call_args.joints
  /\ call_ret.value = "SUCCESS"

RECURSIVE SumOver(_, _)
\* the sum of f[j] over j in S
SumOver(f, S) ==
  IF S = {} THEN 0
  ELSE LET j == CHOOSE x \in S : TRUE IN f[j] + SumOver(f, S \ {j})

\* CalcTransmissionToJoint has returned
MappedToJoint ==
  call_args.op = "CalcTransmissionToJoint" /\ call_ret.op = "return"

\* C24: after CalcTransmissionToJoint every joint's position, velocity and effort
\* slot holds the sum over the transmissions j of T->J[i][j] times transmission j's
\* value of that channel, a repeated call with the same transmission values gives
\* the same joint values, and no other joint state slot is modified
C24_TransmissionToJoint ==
  MappedToJoint =>
    /\ \A i \in Joints, k \in 1..3 :
         call_ret.value.first[i][k] =
           SumOver([j \in Transmissions |->
                      call_args.matrix[i][j] * call_args.tstates[j][k]], Transmissions)
    /\ call_ret.value.again = call_ret.value.first
    /\ \A i \in Joints :
         \A k \in 1..Len(call_args.jstates[i]) :
           k > 3 => call_ret.value.first[i][k] = call_args.jstates[i][k]

\* a call that mixes two moving transmissions into a joint on every channel, over
\* joint slots that held other values
C24_Witness ==
  /\ MappedToJoint
  /\ call_args.matrix = transmission_to_joint_matrix_
  /\ call_args.tstates = <<<<MaxVal, MaxVal, 0, 0>>, <<0, MaxVal, MaxVal, 0>>>>
  /\ call_args.jstates[2] = <<MaxVal, MaxVal, MaxVal, MaxVal>>
  /\ call_ret.value.first[2] = <<MaxVal, 2 * MaxVal, MaxVal, MaxVal>>

\* CalcJointToTransmission has returned
MappedToTransmission ==
  call_args.op = "CalcJointToTransmission" /\ call_ret.op = "return"
\* the control item that carries a joint command channel to a transmission
GoalItem(channel) ==
  IF channel = "position" THEN "Goal Position"
  ELSE IF channel = "velocity" THEN "Goal Velocity"
  ELSE "Goal Current"
\* joint j's command value of a channel (0 when the joint does not expose it)
JointCommandOf(jcmds, j, channel) ==
  LET k == IndexOf(JointCommandInterfaces[j], channel)
  IN  IF k = 0 THEN 0 ELSE jcmds[j][k]
\* the channels some joint exposes as a command interface
ExposedChannels ==
  UNION {{JointCommandInterfaces[j][k] : k \in 1..Len(JointCommandInterfaces[j])} :
           j \in Joints}

\* C25: after CalcJointToTransmission, for every command channel a joint exposes and
\* every transmission i, the transmission's command of that channel equals the sum
\* over the joints j of J->T[i][j] times joint j's command of the same channel
C25_EveryChannelMapped ==
  MappedToTransmission =>
    \A channel \in ExposedChannels, i \in Transmissions :
      \A g \in 1..Len(call_ret.value.groups) :
        (/\ call_ret.value.groups[g].id = TransId(i)
         /\ call_ret.value.groups[g].name = GoalItem(channel))
        => call_ret.value.tcmds[g][1] =
             SumOver([j \in Joints |->
                        call_args.matrix[i][j] *
                        JointCommandOf(call_args.jcmds, j, channel)], Joints)

\* with two command interfaces per gpio the second group, Goal Velocity of the first
\* ID, has received the position mapping of the second transmission
C25_Witness ==
  /\ MappedToTransmission
  /\ Len(call_ret.value.groups) = 4
  /\ call_args.matrix = joint_to_transmission_matrix_
  /\ call_args.jcmds = <<<<1, 0>>, <<0>>>>
  /\ call_ret.value.tcmds = <<<<1>>, <<-1>>, <<0>>, <<0>>>>

\* the round trip has returned
RoundTripped == call_args.op = "RoundTrip" /\ call_ret.op = "return"

\* C26: when T->J and J->T are exact inverses, CalcTransmissionToJoint on a
\* transmission vector v followed by CalcJointToTransmission on the resulting joint
\* vector gives v again
C26_RoundTrip ==
  RoundTripped => call_ret.value = call_args.v

\* a round trip through the configured pair of matrices, which mixes both transmissions
C26_Witness ==
  /\ RoundTripped
  /\ call_args.tj = transmission_to_joint_matrix_
  /\ call_args.jt = joint_to_transmission_matrix_
  /\ call_args.v = [t \in Transmissions |-> IF t = 1 THEN MaxVal ELSE -MaxVal]
  /\ call_ret.value = call_args.v

\* a call of the retry loop is issued: the log grows or begins again
IssuesCall == reboot_log' # reboot_log /\ reboot_log' # <<>>
\* every call of log succeeded
AllOk(log) == \A n \in 1..Len(log) : log[n].ok
\* log is the first calls of one pass, in the configured order: Reboot for the IDs
\* of dxl_id_ one after the other, then the three re-registration steps
InPlanOrder(log) ==
  /\ Len(log) <= Len(dxl_id_) + 3
  /\ \A n \in 1..Len(log) :
       IF n <= Len(dxl_id_)
       THEN log[n].call = "Reboot" /\ log[n].id = dxl_id_[n]
       ELSE log[n].call =
              <<"InitDxlItems", "InitDxlReadItems", "InitDxlWriteItems">>[n - Len(dxl_id_)]

\* C27: in one pass of CommReset's loop the IDs are rebooted one at a time in the
\* configured order; after the first failed call nothing more is issued in that pass
\* and the next call is the reboot of the first ID again; "RESET Success" and a true
\* result come only from a pass in which every reboot and every re-registration
\* step succeeded
C27_AttemptOrder ==
  [][/\ (IssuesCall) =>
          (/\ InPlanOrder(reboot_log')
           /\ AllOk(SubSeq(reboot_log', 1, Len(reboot_log') - 1))
           /\ \/ reboot_log' = Append(reboot_log, reboot_log'[Len(reboot_log')])
              \/ Len(reboot_log') = 1)
     /\ (IssuesCall /\ ~reboot_log'[Len(reboot_log')].ok) => (srv_pc' = "reset_loop")
     /\ (srv_pc' = "reset_start" \/ (srv_pc' = "done" /\ srv_response'.success
                                                       /\ srv_response'.message = "reboot"))
          => (Len(reboot_log') = Len(dxl_id_) + 3 /\ AllOk(reboot_log'))]_vars

\* a pass has been left at the second ID
C27_Witness ==
  /\ srv_pc = "reset_loop"
  /\ reboot_log = <<[call |-> "Reboot", id |-> dxl_id_[1], ok |-> TRUE],
                    [call |-> "Reboot", id |-> dxl_id_[2], ok |-> FALSE]>>

\* the bit of the Hardware Error Status register that stands for each cause
CauseBit ==
  [c \in {"input voltage error", "overheating", "motor encoder", "electrical shork",
          "Overload"} |->
     CASE c = "input voltage error" -> 1
       [] c = "overheating" -> 4
       [] c = "motor encoder" -> 8
       [] c = "electrical shork" -> 16
       [] c = "Overload" -> 32]
\* the causes of an error_string
CausesIn(error_string) == {error_string[n] : n \in 1..Len(error_string)}
\* hw has exactly one bit set
OneBit(hw) == hw \in {1, 2, 4, 8, 16, 32, 64, 128}
\* CheckError has returned for register value call_args.hw
CausesReturned == call_args.op = "CheckError" /\ call_ret.op = "return"

\* C28: for every value of the Hardware Error Status register a cause is reported
\* exactly when its own bit is set, a value with one bit set yields at most one cause,
\* and the status becomes HW_ERROR exactly when a cause is reported
C28_OwnBitPerCause ==
  CausesReturned =>
    /\ \A c \in DOMAIN CauseBit :
         c \in CausesIn(call_ret.value.error_string) <=>
           (call_args.hw \div CauseBit[c]) % 2 = 1
    /\ OneBit(call_args.hw) => Cardinality(CausesIn(call_ret.value.error_string)) <= 1
    /\ dxl_status_ = HW_ERROR <=> call_ret.value.error_string # <<>>

\* a register with the overheating bit alone is reported as overheating and as an
\* electrical short
C28_Witness ==
  /\ CausesReturned
  /\ call_args.hw = 4
  /\ call_ret.value.error_string = <<"overheating", "electrical shork">>
  /\ dxl_status_ = HW_ERROR

\* set_dxl_torque_srv_callback has returned success for a request to enable
EnableSucceeded ==
  /\ srv_pc = "done"
  /\ srv_response.success
  /\ srv_response.message \in {"Already enabled.", "Success to enable."}
\* set_dxl_torque_srv_callback has returned success for a request to disable
DisableSucceeded ==
  /\ srv_pc = "done"
  /\ srv_response.success
  /\ srv_response.message \in {"Already disabled.", "Success to disable."}

\* C29: when SetTorque(enable) returns success every ID is torque-enabled at the
\* link, and when SetTorque(disable) returns success every ID is torque-disabled,
\* the "Already enabled." / "Already disabled." returns included
C29_TorqueSuccessIsTrue ==
  /\ EnableSucceeded => \A id \in IdSet : link_torque[id]
  /\ DisableSucceeded => \A id \in IdSet : ~link_torque[id]

\* after a reboot that failed, with the status COMM_ERROR and the torque of every ID
\* off at the link, a request to enable is answered "Already enabled."
C29_Witness ==
  /\ EnableSucceeded
  /\ srv_response.message = "Already enabled."
  /\ dxl_status_ = COMM_ERROR
  /\ dxl_torque_status_ = TORQUE_ENABLED
  /\ \A id \in IdSet : ~link_torque[id]

====
